---- MODULE Spec2Model ----
(***************************************************************************)
(* ReviewScope (src/server/server.js): the ReviewAnalyzer class and the    *)
(* POST /api/analyze handler.                                              *)
(*                                                                         *)
(* A JavaScript string is a TLA+ string.  Where the code looks inside a    *)
(* string (trim, startsWith, split, includes, decodeURIComponent, a        *)
(* regular expression, JSON.parse) the string is taken apart into its      *)
(* sequence of characters with Chars and put together again with Str.      *)
(* The inputs are ASCII; a character outside ASCII can only come out of    *)
(* percent-decoding and is written "\\u<code point>".                      *)
(***************************************************************************)
EXTENDS Integers, Sequences, FiniteSets, TLC

VARIABLES
    urlIn,      \* parseGoogleMapsUrl: the argument url
    urlOut,     \* parseGoogleMapsUrl: what the call returned or threw
    fetchData,  \* getPlaceReviews: the body of the place-detail provider's response
    fetchOut,   \* getPlaceReviews: what the call returned or threw
    anPlace,    \* analyzeReviews: the argument placeName
    anReviews,  \* analyzeReviews: the argument reviews
    anProvider, \* analyzeReviews: what the generative provider does
    anOut,      \* analyzeReviews: what the call returned or threw
    req,        \* POST /api/analyze: each request's handler (its position and locals)
    calls,      \* POST /api/analyze: the remote calls each request has started, in order
    responses,  \* POST /api/analyze: the responses each request has sent, in order
    globalReviewData    \* global.reviewData

urlVars   == <<urlIn, urlOut>>
fetchVars == <<fetchData, fetchOut>>
anVars    == <<anPlace, anReviews, anProvider, anOut>>
pipeVars  == <<req, calls, responses, globalReviewData>>

vars == <<urlVars, fetchVars, anVars, pipeVars>>

\* A variable of an operation that is not running.
Idle == [kind |-> "idle"]

UrlIdle   == urlIn = "" /\ urlOut = Idle
FetchIdle == fetchData = Idle /\ fetchOut = Idle
AnIdle    == anPlace = Idle /\ anReviews = Idle /\ anProvider = Idle /\ anOut = Idle
PipeIdle  == req = Idle /\ calls = Idle /\ responses = Idle /\ globalReviewData = Idle

Pending == [kind |-> "pending"]

-----------------------------------------------------------------------------
(* Characters and strings *)

\* The printable ASCII characters 32..95 and 97..126 (a TLA+ string cannot hold
\* the grave accent, 96, which is written like a character outside ASCII).
AsciiLo == " !\"#$%&'()*+,-./0123456789:;<=>?@ABCDEFGHIJKLMNOPQRSTUVWXYZ[\\]^_"
AsciiHi == "abcdefghijklmnopqrstuvwxyz{|}~"

Chars(s) == [i \in 1..Len(s) |-> SubSeq(s, i, i)]

RECURSIVE Str(_)
Str(cs) == IF Len(cs) = 0 THEN "" ELSE Head(cs) \o Str(Tail(cs))

AsciiLoChars == Chars(AsciiLo)
AsciiHiChars == Chars(AsciiHi)

Chr(n) ==
    IF n \in 32..95 THEN AsciiLoChars[n - 31]
    ELSE IF n \in 97..126 THEN AsciiHiChars[n - 96]
    ELSE IF n = 9 THEN "\t"
    ELSE IF n = 10 THEN "\n"
    ELSE IF n = 12 THEN "\f"
    ELSE IF n = 13 THEN "\r"
    ELSE "\\u" \o ToString(n)

Ord(c) ==
    IF c = "\t" THEN 9
    ELSE IF c = "\n" THEN 10
    ELSE IF c = "\f" THEN 12
    ELSE IF c = "\r" THEN 13
    ELSE CHOOSE n \in 32..126 : Chr(n) = c

UpperChars == Chars("ABCDEFGHIJKLMNOPQRSTUVWXYZ")
LowerChars == Chars("abcdefghijklmnopqrstuvwxyz")
DigitChars == Chars("0123456789")
HexChars   == Chars("0123456789ABCDEF")

Range(f) == {f[i] : i \in DOMAIN f}

IsUpper(c) == c \in Range(UpperChars)
IsAlpha(c) == c \in Range(UpperChars) \cup Range(LowerChars)
IsDigit(c) == c \in Range(DigitChars)

LowerChar(c) ==
    IF IsUpper(c) THEN LowerChars[CHOOSE i \in 1..26 : UpperChars[i] = c] ELSE c

toLowerCase(cs) == [i \in 1..Len(cs) |-> LowerChar(cs[i])]

IsHex(c) == LowerChar(c) \in Range(Chars("0123456789abcdef"))
HexVal(c) == (CHOOSE i \in 1..16 : HexChars[i] = (IF IsDigit(c) THEN c
                 ELSE UpperChars[CHOOSE j \in 1..26 : LowerChars[j] = LowerChar(c)])) - 1

\* String.prototype.trim, on the white space an ASCII string can hold.
JsWhiteSpace == {" ", "\t", "\n", "\f", "\r"}

RECURSIVE TrimStart(_)
TrimStart(cs) ==
    IF Len(cs) > 0 /\ Head(cs) \in JsWhiteSpace THEN TrimStart(Tail(cs)) ELSE cs

RECURSIVE TrimEnd(_)
TrimEnd(cs) ==
    IF Len(cs) > 0 /\ cs[Len(cs)] \in JsWhiteSpace
    THEN TrimEnd(SubSeq(cs, 1, Len(cs) - 1)) ELSE cs

trim(cs) == TrimEnd(TrimStart(cs))

startsWith(cs, pre) ==
    Len(pre) <= Len(cs) /\ SubSeq(cs, 1, Len(pre)) = pre

\* String.prototype.includes
includes(cs, sub) ==
    \E i \in 1..(Len(cs) - Len(sub) + 1) : SubSeq(cs, i, i + Len(sub) - 1) = sub

\* The index of the first character of cs in the set stop, or Len(cs) + 1.
FirstOf(cs, stop) ==
    IF \E i \in 1..Len(cs) : cs[i] \in stop
    THEN CHOOSE i \in 1..Len(cs) : cs[i] \in stop /\ \A j \in 1..(i - 1) : cs[j] \notin stop
    ELSE Len(cs) + 1

\* String.prototype.split on the separators in sep: always at least one piece.
RECURSIVE SplitOn(_, _)
SplitAt(cs, sep, i) ==
    IF i > Len(cs) THEN <<cs>>
    ELSE <<SubSeq(cs, 1, i - 1)>> \o SplitOn(SubSeq(cs, i + 1, Len(cs)), sep)

SplitOn(cs, sep) == SplitAt(cs, sep, FirstOf(cs, sep))

\* Array.prototype.filter(Boolean) on an array of strings
FilterNonEmpty(ss) == SelectSeq(ss, LAMBDA s : Len(s) > 0)

\* Array.prototype.indexOf, 1-based; 0 stands for the code's -1.
indexOf(ss, x) ==
    IF \E i \in 1..Len(ss) : ss[i] = x
    THEN CHOOSE i \in 1..Len(ss) : ss[i] = x /\ \A j \in 1..(i - 1) : ss[j] # x
    ELSE 0

\* replace(/\+/g, ' ')
ReplacePlus(cs) == [i \in 1..Len(cs) |-> IF cs[i] = "+" THEN " " ELSE cs[i]]

RECURSIVE JoinWith(_, _)
JoinWith(ss, sep) ==
    IF Len(ss) = 0 THEN <<>>
    ELSE IF Len(ss) = 1 THEN ss[1]
    ELSE ss[1] \o sep \o JoinWith(Tail(ss), sep)

RECURSIVE Flatten(_)
Flatten(ss) == IF Len(ss) = 0 THEN <<>> ELSE Head(ss) \o Flatten(Tail(ss))

RECURSIVE ParseDigits(_)
ParseDigits(cs) ==
    IF Len(cs) = 0 THEN 0
    ELSE 10 * ParseDigits(SubSeq(cs, 1, Len(cs) - 1)) + HexVal(cs[Len(cs)])

AllDigits(cs) == \A i \in 1..Len(cs) : IsDigit(cs[i])

-----------------------------------------------------------------------------
(* Percent-encoding (WHATWG URL, ECMAScript) *)

HexByte(n) == <<"%", HexChars[(n \div 16) + 1], HexChars[(n % 16) + 1]>>

\* UTF-8 percent-encode the characters of cs that are in the set enc; a character
\* of the model's alphabet is one byte.
PercentEncode(cs, enc) ==
    Flatten([i \in 1..Len(cs) |-> IF cs[i] \in enc THEN HexByte(Ord(cs[i])) ELSE <<cs[i]>>])

\* The bytes of a string after "percent-decode": %HH becomes the byte, a % that
\* is not followed by two hex digits stays (WHATWG URL 1.3).
RECURSIVE PercentDecodeBytes(_)
PercentDecodeBytes(cs) ==
    IF Len(cs) = 0 THEN <<>>
    ELSE IF cs[1] = "%" /\ Len(cs) >= 3 /\ IsHex(cs[2]) /\ IsHex(cs[3])
    THEN <<16 * HexVal(cs[2]) + HexVal(cs[3])>> \o PercentDecodeBytes(SubSeq(cs, 4, Len(cs)))
    ELSE <<Ord(cs[1])>> \o PercentDecodeBytes(Tail(cs))

IsCont(b) == b \in 128..191

\* The number of bytes of the UTF-8 sequence a lead byte announces; 0: no lead byte.
Utf8Need(b) ==
    IF b < 128 THEN 1
    ELSE IF b \in 194..223 THEN 2
    ELSE IF b \in 224..239 THEN 3
    ELSE IF b \in 240..244 THEN 4
    ELSE 0

\* Whether bs starts with a well-formed UTF-8 sequence of n bytes (Unicode table 3-7).
Utf8WellFormed(bs, n) ==
    /\ n >= 1
    /\ Len(bs) >= n
    /\ \A i \in 2..n : IsCont(bs[i])
    /\ (bs[1] = 224 => bs[2] >= 160)
    /\ (bs[1] = 237 => bs[2] <= 159)
    /\ (bs[1] = 240 => bs[2] >= 144)
    /\ (bs[1] = 244 => bs[2] <= 143)

Utf8CodePoint(bs, n) ==
    IF n = 1 THEN bs[1]
    ELSE IF n = 2 THEN (bs[1] - 192) * 64 + (bs[2] - 128)
    ELSE IF n = 3 THEN (bs[1] - 224) * 4096 + (bs[2] - 128) * 64 + (bs[3] - 128)
    ELSE (bs[1] - 240) * 262144 + (bs[2] - 128) * 4096 + (bs[3] - 128) * 64 + (bs[4] - 128)

\* "UTF-8 decode without BOM": an ill-formed byte becomes U+FFFD.
RECURSIVE Utf8DecodeLossy(_)
Utf8DecodeNext(bs, n) ==
    IF Utf8WellFormed(bs, n)
    THEN <<Chr(Utf8CodePoint(bs, n))>> \o Utf8DecodeLossy(SubSeq(bs, n + 1, Len(bs)))
    ELSE <<Chr(65533)>> \o Utf8DecodeLossy(Tail(bs))

Utf8DecodeLossy(bs) == IF Len(bs) = 0 THEN <<>> ELSE Utf8DecodeNext(bs, Utf8Need(bs[1]))

\* The bytes of the run of %HH escapes at the start of cs.
RECURSIVE DecodeBytes(_)
DecodeBytes(cs) ==
    IF Len(cs) >= 3 /\ cs[1] = "%" /\ IsHex(cs[2]) /\ IsHex(cs[3])
    THEN <<16 * HexVal(cs[2]) + HexVal(cs[3])>> \o DecodeBytes(SubSeq(cs, 4, Len(cs)))
    ELSE <<>>

\* decodeURIComponent (ECMAScript Decode with an empty reserved set): the decoded
\* characters, or the URIError it throws.
URIError == [ok |-> FALSE, name |-> "URIError", message |-> "URI malformed"]

\* The character c in front of the decoded rest r, unless decoding the rest threw.
Decoded(c, r) == IF r.ok THEN [ok |-> TRUE, value |-> <<c>> \o r.value] ELSE r

RECURSIVE decodeURIComponent(_)
\* cs starts with the escapes of the bytes bs, whose first byte announces n bytes.
DecodeEscapes(cs, bs, n) ==
    IF n = 0 \/ Len(bs) < n \/ ~Utf8WellFormed(bs, n) THEN URIError
    ELSE Decoded(Chr(Utf8CodePoint(bs, n)),
                 decodeURIComponent(SubSeq(cs, 3 * n + 1, Len(cs))))

decodeURIComponent(cs) ==
    IF Len(cs) = 0 THEN [ok |-> TRUE, value |-> <<>>]
    ELSE IF cs[1] # "%" THEN Decoded(cs[1], decodeURIComponent(Tail(cs)))
    ELSE IF ~(Len(cs) >= 3 /\ IsHex(cs[2]) /\ IsHex(cs[3])) THEN URIError
    ELSE DecodeEscapes(cs, DecodeBytes(cs), Utf8Need(16 * HexVal(cs[2]) + HexVal(cs[3])))

-----------------------------------------------------------------------------
(* new URL(input), without a base (WHATWG URL basic parser).  Not modelled,     *)
(* and never fed: file: URLs, IPv6 literals, hosts outside ASCII (IDNA), and    *)
(* IPv4 shorthand (a host ending in a number that is not four decimal parts).   *)

UrlFailure == [ok |-> FALSE, name |-> "TypeError", message |-> "Invalid URL"]

SpecialSchemes == {Chars("http"), Chars("https"), Chars("ftp"), Chars("ws"), Chars("wss")}

C0ControlOrSpace == {" ", "\t", "\n", "\f", "\r"}

RECURSIVE StripLeading(_, _)
StripLeading(cs, set) ==
    IF Len(cs) > 0 /\ Head(cs) \in set THEN StripLeading(Tail(cs), set) ELSE cs

RECURSIVE StripTrailing(_, _)
StripTrailing(cs, set) ==
    IF Len(cs) > 0 /\ cs[Len(cs)] \in set
    THEN StripTrailing(SubSeq(cs, 1, Len(cs) - 1), set) ELSE cs

RemoveTabNewline(cs) == SelectSeq(cs, LAMBDA c : c \notin {"\t", "\n", "\r"})

IsSchemeChar(c) == IsAlpha(c) \/ IsDigit(c) \/ c \in {"+", "-", "."}

SchemeEnd(cs) ==
    IF \E i \in 1..Len(cs) : ~IsSchemeChar(cs[i])
    THEN CHOOSE i \in 1..Len(cs) :
            ~IsSchemeChar(cs[i]) /\ \A j \in 1..(i - 1) : IsSchemeChar(cs[j])
    ELSE Len(cs) + 1

LastIndexOf(cs, c) ==
    IF \E i \in 1..Len(cs) : cs[i] = c
    THEN CHOOSE i \in 1..Len(cs) : cs[i] = c /\ \A j \in (i + 1)..Len(cs) : cs[j] # c
    ELSE 0

ForbiddenHostCodePoints ==
    {" ", "\t", "\n", "\r", "#", "/", ":", "<", ">", "?", "@", "[", "\\", "]", "^", "|"}
ForbiddenDomainCodePoints == ForbiddenHostCodePoints \cup {"\f", "%"}

PathEncodeSet  == {" ", "\f", "\"", "#", "<", ">", "?", Chr(96), "{", "}"}
QueryEncodeSet == {" ", "\f", "\"", "#", "<", ">"}
SpecialQueryEncodeSet == QueryEncodeSet \cup {"'"}

\* "ends in a number" and the IPv4 parser, for four decimal parts only.
\* parts is the host split on "."; a last part that is empty is dropped.
LastPart(parts) ==
    IF Len(parts) > 1 /\ Len(parts[Len(parts)]) = 0
    THEN parts[Len(parts) - 1] ELSE parts[Len(parts)]

IsNumber(part) == Len(part) > 0 /\ AllDigits(part)

EndsInNumber(host) == IsNumber(LastPart(SplitOn(host, {"."})))

IsQuadPart(part) ==
    /\ Len(part) \in 1..3
    /\ AllDigits(part)
    /\ (Len(part) > 1 => part[1] # "0")
    /\ ParseDigits(part) <= 255

IsQuad(parts) == Len(parts) = 4 /\ \A i \in 1..4 : IsQuadPart(parts[i])

IsDottedQuad(host) == IsQuad(SplitOn(host, {"."}))

\* The domain d, percent-decoded and lower-cased.
ParseDomain(d) ==
    IF Len(d) = 0 \/ \E i \in 1..Len(d) : d[i] \in ForbiddenDomainCodePoints
    THEN [ok |-> FALSE]
    ELSE IF EndsInNumber(d) /\ ~IsDottedQuad(d)
    THEN [ok |-> FALSE]
    ELSE [ok |-> TRUE, host |-> d]

\* The host's bytes after percent-decoding.
ParseHostBytes(bytes) ==
    IF \E i \in 1..Len(bytes) : bytes[i] >= 128 \/ bytes[i] < 32 \/ bytes[i] = 127
    THEN [ok |-> FALSE]
    ELSE ParseDomain(toLowerCase([i \in 1..Len(bytes) |-> Chr(bytes[i])]))

\* The host parser: the serialized host, or failure.
ParseHost(h, special) ==
    IF ~special
    THEN IF \E i \in 1..Len(h) : h[i] \in ForbiddenHostCodePoints
         THEN [ok |-> FALSE]
         ELSE [ok |-> TRUE, host |-> PercentEncode(h, {"\f"})]
    ELSE ParseHostBytes(PercentDecodeBytes(h))

\* Host h and port, the two sides of the first ":" of hostport.
ParseHostPort(h, port, special) ==
    IF special /\ Len(h) = 0 THEN [ok |-> FALSE]
    ELSE IF ~AllDigits(port) \/ (Len(port) > 0 /\ ParseDigits(port) > 65535)
    THEN [ok |-> FALSE]
    ELSE ParseHost(h, special)

\* hostport is what follows the credentials; hasAt: the authority had an "@".
ParseAfterCredentials(hasAt, hostport, colon, special) ==
    IF hasAt /\ Len(hostport) = 0 THEN [ok |-> FALSE]
    ELSE ParseHostPort(SubSeq(hostport, 1, colon - 1),
                       SubSeq(hostport, colon + 1, Len(hostport)), special)

SplitCredentials(a, at, special) ==
    ParseAfterCredentials(at > 0, SubSeq(a, at + 1, Len(a)),
                          FirstOf(SubSeq(a, at + 1, Len(a)), {":"}), special)

\* The authority: credentials up to the last "@", then host and port.
ParseAuthority(a, special) == SplitCredentials(a, LastIndexOf(a, "@"), special)

IsSingleDot(seg) == toLowerCase(seg) \in {Chars("."), Chars("%2e")}
IsDoubleDot(seg) ==
    toLowerCase(seg) \in {Chars(".."), Chars(".%2e"), Chars("%2e."), Chars("%2e%2e")}

\* The path state for one segment: path is the URL's path so far, last says
\* that seg is the last segment.
PathAfter(path, seg, last) ==
    IF IsDoubleDot(seg)
    THEN (IF Len(path) > 0 THEN SubSeq(path, 1, Len(path) - 1) ELSE path)
         \o (IF last THEN << <<>> >> ELSE <<>>)
    ELSE IF IsSingleDot(seg)
    THEN path \o (IF last THEN << <<>> >> ELSE <<>>)
    ELSE Append(path, PercentEncode(seg, PathEncodeSet))

RECURSIVE PathSegments(_, _)
PathSegments(segs, path) ==
    IF Len(segs) = 0 THEN path
    ELSE PathSegments(Tail(segs), PathAfter(path, Head(segs), Len(segs) = 1))

\* URL.pathname for what follows the authority (p is empty or starts with a
\* separator).
\* The URL path serializer
SerializePath(path) == Flatten([i \in 1..Len(path) |-> <<"/">> \o path[i]])

PathName(p, special) ==
    IF Len(p) = 0 THEN (IF special THEN <<"/">> ELSE <<>>)
    ELSE SerializePath(PathSegments(SplitOn(Tail(p), IF special THEN {"/", "\\"} ELSE {"/"}),
                                    <<>>))

\* The URL record of a URL with an authority, or failure.
UrlRecord(auth, pathname, query) ==
    IF ~auth.ok THEN UrlFailure
    ELSE [ok |-> TRUE, hostname |-> auth.host, pathname |-> pathname, query |-> query]

\* afterSl is what follows the slashes in front of the authority; the authority
\* ends before aEnd.
AuthorityAndPath(afterSl, aEnd, special, query) ==
    UrlRecord(ParseAuthority(SubSeq(afterSl, 1, aEnd - 1), special),
              PathName(SubSeq(afterSl, aEnd, Len(afterSl)), special), query)

AfterSlashes(afterSl, special, query) ==
    AuthorityAndPath(afterSl, FirstOf(afterSl, IF special THEN {"/", "\\"} ELSE {"/"}),
                     special, query)

\* hier is what stands between the scheme's colon and the query.
Hierarchy(special, hier, query) ==
    IF special THEN AfterSlashes(StripLeading(hier, {"/", "\\"}), TRUE, query)
    ELSE IF startsWith(hier, Chars("//"))
    THEN AfterSlashes(SubSeq(hier, 3, Len(hier)), FALSE, query)
    ELSE IF startsWith(hier, Chars("/"))
    THEN [ok |-> TRUE, hostname |-> <<>>,
          pathname |-> PathName(hier, FALSE), query |-> query]
    ELSE [ok |-> TRUE, hostname |-> <<>>,
          pathname |-> PercentEncode(hier, {"\f"}), query |-> query]

\* noFrag is what stands between the scheme's colon and the fragment; the query
\* starts after qAt.
SplitQuery(special, noFrag, qAt) ==
    Hierarchy(special, SubSeq(noFrag, 1, qAt - 1),
              PercentEncode(SubSeq(noFrag, qAt + 1, Len(noFrag)),
                            IF special THEN SpecialQueryEncodeSet ELSE QueryEncodeSet))

DropFragment(special, noFrag) == SplitQuery(special, noFrag, FirstOf(noFrag, {"?"}))

AfterScheme(special, rest) ==
    DropFragment(special, SubSeq(rest, 1, FirstOf(rest, {"#"}) - 1))

\* The scheme of s ends before k.
SchemeState(s, k) ==
    IF Len(s) = 0 \/ ~IsAlpha(s[1]) \/ k > Len(s) \/ s[k] # ":" THEN UrlFailure
    ELSE AfterScheme(toLowerCase(SubSeq(s, 1, k - 1)) \in SpecialSchemes,
                     SubSeq(s, k + 1, Len(s)))

SchemeStart(s) == SchemeState(s, SchemeEnd(s))

ParseURL(input) ==
    SchemeStart(RemoveTabNewline(StripTrailing(StripLeading(input, C0ControlOrSpace),
                                               C0ControlOrSpace)))

\* URLSearchParams.get(name) on the URL's query (application/x-www-form-urlencoded
\* parsing): the first value with that name, or null.
FormDecode(cs) == Utf8DecodeLossy(PercentDecodeBytes(ReplacePlus(cs)))

\* The name and the value of the pair p: the two sides of its first "=".
PairName(p)  == FormDecode(SubSeq(p, 1, FirstOf(p, {"="}) - 1))
PairValue(p) == FormDecode(SubSeq(p, FirstOf(p, {"="}) + 1, Len(p)))

\* hits: the pairs with the name asked for.
FirstValue(hits) ==
    IF Len(hits) = 0 THEN [null |-> TRUE] ELSE [null |-> FALSE, value |-> PairValue(hits[1])]

searchParamsGet(query, name) ==
    FirstValue(SelectSeq(FilterNonEmpty(SplitOn(query, {"&"})),
                         LAMBDA p : PairName(p) = name))
-----------------------------------------------------------------------------
(* ReviewAnalyzer.parseGoogleMapsUrl *)

Return(v)       == [kind |-> "return", value |-> v]
Throw(n, m)     == [kind |-> "throw", name |-> n, message |-> m]
Undefined       == [kind |-> "undefined"]

\* decodeURIComponent(x).replace(/\+/g, ' ') on the outcome d of
\* decodeURIComponent: a value, or the error thrown.
Replaced(d) == IF d.ok THEN Return(ReplacePlus(d.value)) ELSE Throw(d.name, d.message)

DecodeAndReplace(cs) == Replaced(decodeURIComponent(cs))

pathPartsOf(urlObj) == FilterNonEmpty(SplitOn(urlObj.pathname, {"/"}))

\* /maps/place/Place+Name, with placeIndex = pathParts.indexOf('place')
PlaceAt(pathParts, placeIndex) ==
    IF /\ placeIndex # 0
       /\ placeIndex + 1 <= Len(pathParts)
       /\ ~startsWith(pathParts[placeIndex + 1], <<"@">>)
    THEN DecodeAndReplace(pathParts[placeIndex + 1])
    ELSE Undefined

PlaceIn(pathParts) == PlaceAt(pathParts, indexOf(pathParts, Chars("place")))

PatternPlace(urlObj) == PlaceIn(pathPartsOf(urlObj))

\* /maps/search/Place+Name, with searchIndex = pathParts.indexOf('search')
SearchAt(pathParts, searchIndex) ==
    IF searchIndex # 0 /\ searchIndex + 1 <= Len(pathParts)
    THEN DecodeAndReplace(pathParts[searchIndex + 1])
    ELSE Undefined

SearchIn(pathParts) == SearchAt(pathParts, indexOf(pathParts, Chars("search")))

PatternSearch(urlObj) == SearchIn(pathPartsOf(urlObj))

\* maps.app.goo.gl format, with q = urlObj.searchParams.get('q')
ShortLinkWith(urlObj, q) ==
    IF ~q.null /\ Len(q.value) > 0 THEN DecodeAndReplace(q.value)
    ELSE IF Len(urlObj.pathname) > 0 /\ urlObj.pathname # <<"/">>
    THEN Return(Chars("Location from Google Maps"))
    ELSE Undefined

PatternShortLink(urlObj) ==
    IF includes(urlObj.hostname, Chars("maps.app.goo.gl"))
    THEN ShortLinkWith(urlObj, searchParamsGet(urlObj.query, <<"q">>))
    ELSE Undefined

\* ?q=Place+Name, with q = urlObj.searchParams.get('q')
QueryWith(q) ==
    IF ~q.null /\ Len(q.value) > 0 THEN DecodeAndReplace(q.value) ELSE Undefined

PatternQuery(urlObj) == QueryWith(searchParamsGet(urlObj.query, <<"q">>))

patterns(urlObj) ==
    <<PatternPlace(urlObj), PatternSearch(urlObj), PatternShortLink(urlObj),
      PatternQuery(urlObj)>>

\* Whether a pattern's outcome ends the loop: it threw, or its result is truthy.
EndsLoop(r) == r.kind = "throw" \/ (r.kind = "return" /\ Len(r.value) > 0)

\* for (const pattern of patterns) { const result = pattern(); if (result) return
\* result.trim(); }: the index of the first pattern that throws or gives a
\* non-empty string, or 0.  rs is the outcome of each pattern; a pattern after
\* the one that ends the loop is not called, and its outcome is not looked at.
FirstPattern(rs) ==
    IF \E i \in 1..Len(rs) : EndsLoop(rs[i])
    THEN CHOOSE i \in 1..Len(rs) : EndsLoop(rs[i]) /\ \A j \in 1..(i - 1) : ~EndsLoop(rs[j])
    ELSE 0

\* A variant that strips every leading '@'.
RECURSIVE StripEveryLeadingAt(_)
StripEveryLeadingAt(cleanUrl) ==
    IF startsWith(cleanUrl, <<"@">>) THEN StripEveryLeadingAt(Tail(cleanUrl)) ELSE cleanUrl

\* if (cleanUrl.startsWith('@')) cleanUrl = cleanUrl.substring(1)
StripLeadingAt(cleanUrl) ==
    IF startsWith(cleanUrl, <<"@">>) THEN Tail(cleanUrl) ELSE cleanUrl

\* Lines 92-102: the loop over the patterns, whose outcomes are rs and of which
\* pattern i ends the loop (0: none does), and what follows the loop.
LoopOutcome(urlObj, rs, i) ==
    IF i # 0
    THEN (IF rs[i].kind = "throw" THEN rs[i] ELSE Return(trim(rs[i].value)))
    ELSE IF includes(urlObj.hostname, Chars("maps.app.goo.gl"))
    THEN Return(Chars("Google Maps Location"))
    ELSE Throw("Error", "Could not extract place name from this URL format")

TryPatterns(urlObj, rs) == LoopOutcome(urlObj, rs, FirstPattern(rs))

\* Lines 46-102, with urlObj the outcome of new URL(cleanUrl).
ExtractPlaceName(urlObj) ==
    IF ~urlObj.ok THEN Throw(urlObj.name, urlObj.message)
    ELSE IF /\ ~includes(urlObj.hostname, Chars("google.com"))
            /\ ~includes(urlObj.hostname, Chars("maps.google"))
            /\ ~includes(urlObj.hostname, Chars("maps.app.goo.gl"))
    THEN Throw("Error", "Please provide a valid Google Maps URL")
    ELSE TryPatterns(urlObj, patterns(urlObj))

ParseBody(url) == ExtractPlaceName(ParseURL(StripLeadingAt(trim(url))))

\* The catch block, lines 103-108.
CatchParse(r) ==
    IF r.kind = "throw" /\ includes(Chars(r.message), Chars("Invalid URL"))
    THEN Throw("Error", "Please provide a valid URL")
    ELSE r

\* parseGoogleMapsUrl(url): [kind |-> "return", value |-> string], or
\* [kind |-> "throw", name, message].
AsString(r) == IF r.kind = "return" THEN Return(Str(r.value)) ELSE r

parseGoogleMapsUrl(url) == AsString(CatchParse(ParseBody(Chars(url))))

-----------------------------------------------------------------------------
(* The inputs of parseGoogleMapsUrl *)

MaxPrefixLen == 3

PrefixChars == {"@", " "}

RECURSIVE Prefixes(_)
Prefixes(n) ==
    IF n = 0 THEN {""}
    ELSE Prefixes(n - 1) \cup {c \o p : c \in PrefixChars, p \in Prefixes(n - 1)}

BaseUrls ==
    { "https://maps.app.goo.gl/3a3YDmhLRacNV9Bs9",
      "https://maps.google.com/maps/place/Restaurant+Name",
      "https://maps.google.com/maps/search/Cafe+Location",
      "https://maps.google.com/?q=Business+Name",
      "https://maps.app.goo.gl/abc123?q=Test+Location",
      "invalid-url",
      "https://example.com/not-google-maps",
      "",
      "https://",
      "mailto:owner@google.com",
      "HTTPS://WWW.GOOGLE.COM/maps/place/Upper+Case",
      "https://user@maps.google.com:443/maps/place/Port",
      "https://google.com.evil.example/?q=Permissive",
      "https://www.google.com/maps/place/Joe%27s+Diner/@40.7,-74.0,17z",
      "https://www.google.com/maps/place/@40.7,-74.0,17z",
      "https://www.google.com/maps/place/@40.7,-74.0,17z?q=Pin",
      "https://www.google.com/maps/place",
      "https://www.google.com/maps/place/A/search/B?q=C",
      "https://www.google.com/maps/search/B/place/A?q=C",
      "https://www.google.com/maps/search/B?q=C",
      "https://www.google.com/maps/place/a/../search/S",
      "https://www.google.com/maps/place/A%2FB",
      "https://www.google.com/maps/place/caf%C3%A9",
      "https://www.google.com/maps/place/%E0%A4",
      "https://www.google.com/maps/place/+",
      "https://www.google.com/maps/place/%20?q=C",
      "https://www.google.com/maps/place/100%",
      "https://www.google.com/maps/search/100%?q=C",
      "https://www.google.com/maps?q=100%25",
      "https://www.google.com/maps?x=1&q=50%25+off",
      "https://www.google.com/maps?q=",
      "https://www.google.com/maps?q=+",
      "https://www.google.com/maps",
      "https://maps.app.goo.gl",
      "https://maps.app.goo.gl/",
      "https://maps.app.goo.gl/?q=",
      "https://maps.app.goo.gl/abc?q=",
      "https://maps.app.goo.gl/abc?q=%2B",
      "https://maps.app.goo.gl/abc?q=100%25",
      "https://maps.app.goo.gl/place/X?q=Y",
      "https://maps.app.goo.gl/search/X?q=Y",
      "https://maps.google.com/maps/place/Restaurant+Name " }

UrlInputs == {p \o b : p \in Prefixes(MaxPrefixLen), b \in BaseUrls}

-----------------------------------------------------------------------------
(* parseGoogleMapsUrl applied to every input *)

InitUrl ==
    /\ urlIn \in UrlInputs
    /\ urlOut = Pending
    /\ FetchIdle /\ AnIdle /\ PipeIdle

CallParse ==
    /\ urlOut = Pending
    /\ urlOut' = parseGoogleMapsUrl(urlIn)
    /\ UNCHANGED <<urlIn, fetchVars, anVars, pipeVars>>

NextUrl == CallParse

SpecUrl == InitUrl /\ [][NextUrl]_vars
-----------------------------------------------------------------------------
(* ReviewAnalyzer.getPlaceReviews, from the response body on (lines 164-190). *)
(* An optional JSON member is <<>> when absent and <<v>> when present.        *)

None    == <<>>
Some(v) == <<v>>

maxReviews == 50

Min(a, b) == IF a < b THEN a ELSE b

\* review.text?.text || review.originalText?.text || ''
MappedText(review) ==
    IF review.text # None /\ Len(review.text[1]) > 0 THEN review.text[1]
    ELSE IF review.originalText # None /\ Len(review.originalText[1]) > 0
    THEN review.originalText[1]
    ELSE ""

MapReview(review) ==
    [text |-> MappedText(review), rating |-> review.rating, time |-> review.publishTime]

\* data.reviews || []
RawReviews(data) == IF data.reviews = None THEN <<>> ELSE data.reviews[1]

\* Array.prototype.map(MapReview)
MapReviews(raw) == [i \in 1..Len(raw) |-> MapReview(raw[i])]

\* review => review.text.length > 10
IsSubstantial(review) == Len(review.text) > 10

\* Array.prototype.slice(0, n)
Slice(a, n) == SubSeq(a, 1, Min(Len(a), n))

\* A variant that truncates before it filters: .map(...).slice(...).filter(...)
SliceThenFilter(data) ==
    SelectSeq(Slice(MapReviews(RawReviews(data)), maxReviews), IsSubstantial)

\* .map(...).filter(review => review.text.length > 10).slice(0, config.maxReviews)
SubstantialReviews(data) ==
    Slice(SelectSeq(MapReviews(RawReviews(data)), IsSubstantial), maxReviews)

\* Lines 177-189, with the local variables of lines 164 and 168.
ReviewData(data, totalAvailableReviews, reviews) ==
    IF Len(reviews) = 0
    THEN Throw("Error", "No substantial reviews found for this place.")
    ELSE Return([name           |-> data.displayName,
                 reviews        |-> reviews,
                 totalFound     |-> Len(reviews),
                 totalAvailable |-> totalAvailableReviews,
                 limitApplied   |-> totalAvailableReviews > maxReviews])

getPlaceReviewsBody(data) ==
    ReviewData(data, Len(RawReviews(data)), SubstantialReviews(data))

-----------------------------------------------------------------------------
(* The response bodies of the place-detail provider *)

MaxRaw == 52

RawReview(text, originalText, rating) ==
    [text |-> text, originalText |-> originalText, rating |-> rating,
     publishTime |-> Some("2024-01-01T00:00:00Z")]

RawKinds ==
    { RawReview(Some("Great food and friendly staff"), None, Some(5)),
      RawReview(Some("Good coffee"), Some("Buen cafe"), Some(4)),
      RawReview(Some("0123456789"), None, Some(3)),
      RawReview(Some("Bad"), None, Some(1)),
      RawReview(None, Some("Servicio terrible, muy lento"), Some(2)),
      RawReview(None, None, None) }

\* A provider list repeats one or two kinds of review.
RawCycles == {<<a>> : a \in RawKinds} \cup {<<a, b>> : a, b \in RawKinds}

CycleList(cycle, n) == [i \in 1..n |-> cycle[((i - 1) % Len(cycle)) + 1]]

\* A provider list of n reviews, all substantial but the one at position p.
OneShort(p, n) ==
    [i \in 1..n |-> IF i = p THEN RawReview(Some("Bad"), None, Some(1))
                    ELSE RawReview(Some("Great food and friendly staff"), None, Some(5))]

DetailBodies ==
    { [displayName |-> Some("Cafe Uno"), reviews |-> None],
      [displayName |-> None, reviews |-> Some(CycleList(<<CHOOSE k \in RawKinds : TRUE>>, 2))] }
    \cup { [displayName |-> Some("Cafe Uno"), reviews |-> Some(CycleList(c, n))] :
              c \in RawCycles, n \in 0..MaxRaw }
    \cup { [displayName |-> Some("Cafe Uno"), reviews |-> Some(OneShort(p, MaxRaw))] :
              p \in 1..MaxRaw }

InitFetch ==
    /\ fetchData \in DetailBodies
    /\ fetchOut = Pending
    /\ UrlIdle /\ AnIdle /\ PipeIdle

CallGetPlaceReviews ==
    /\ fetchOut = Pending
    /\ fetchOut' = getPlaceReviewsBody(fetchData)
    /\ UNCHANGED <<fetchData, urlVars, anVars, pipeVars>>

NextFetch == CallGetPlaceReviews

SpecFetch == InitFetch /\ [][NextFetch]_vars
-----------------------------------------------------------------------------
(* JavaScript values, as JSON.parse builds them and as the code builds them *)

JsNull         == [t |-> "null"]
JsBool(b)      == [t |-> "bool", b |-> b]
JsStr(str)     == [t |-> "str", s |-> str]
JsNum(lex, z)  == [t |-> "num", lex |-> lex, zero |-> z]
JsInt(n)       == JsNum(ToString(n), n = 0)
JsArr(items)   == [t |-> "arr", items |-> items]
JsObj(members) == [t |-> "obj", members |-> members]   \* <<[k |-> key, v |-> value], ...>>
JsUndefined    == [t |-> "undefined"]

\* obj.key for an object JSON.parse built: the last member with that key.
LastValue(hits) == IF Len(hits) = 0 THEN JsUndefined ELSE hits[Len(hits)].v

GetMember(obj, key) == LastValue(SelectSeq(obj.members, LAMBDA m : m.k = key))

\* ToBoolean
Truthy(v) ==
    IF v.t \in {"undefined", "null"} THEN FALSE
    ELSE IF v.t = "bool" THEN v.b
    ELSE IF v.t = "num" THEN ~v.zero
    ELSE IF v.t = "str" THEN v.s # ""
    ELSE TRUE

-----------------------------------------------------------------------------
(* JSON.parse (ECMA-404), on the characters cs from index i.  A parser gives  *)
(* [ok |-> TRUE, val, next] or [ok |-> FALSE] (a SyntaxError).                *)

JsonFail == [ok |-> FALSE]
JsonOk(v, n) == [ok |-> TRUE, val |-> v, next |-> n]

JsonWhiteSpace == {" ", "\t", "\n", "\r"}

RECURSIVE SkipWs(_, _)
SkipWs(cs, i) ==
    IF i <= Len(cs) /\ cs[i] \in JsonWhiteSpace THEN SkipWs(cs, i + 1) ELSE i

HasAt(cs, i, word) ==
    i + Len(word) - 1 <= Len(cs) /\ SubSeq(cs, i, i + Len(word) - 1) = word

RECURSIVE DigitsEnd(_, _)
DigitsEnd(cs, i) == IF i <= Len(cs) /\ IsDigit(cs[i]) THEN DigitsEnd(cs, i + 1) ELSE i

\* number: -? (0 | [1-9][0-9]*) (. [0-9]+)? ([eE] [+-]? [0-9]+)?
\* The number starts at i, its integer part at i1 and ends before i2, its
\* fraction ends before f0, its exponent's digits start at e0 and end before e1.
IntStart(cs, i) == IF i <= Len(cs) /\ cs[i] = "-" THEN i + 1 ELSE i

IntEnd(cs, i1) == IF i1 <= Len(cs) /\ cs[i1] = "0" THEN i1 + 1 ELSE DigitsEnd(cs, i1)

FracEnd(cs, i2) == IF i2 <= Len(cs) /\ cs[i2] = "." THEN DigitsEnd(cs, i2 + 1) ELSE i2

HasExp(cs, f0) == f0 <= Len(cs) /\ cs[f0] \in {"e", "E"}

ExpStart(cs, f0) ==
    IF HasExp(cs, f0) /\ f0 + 1 <= Len(cs) /\ cs[f0 + 1] \in {"+", "-"}
    THEN f0 + 2 ELSE f0 + 1

ExpEnd(cs, f0, e0) == IF HasExp(cs, f0) THEN DigitsEnd(cs, e0) ELSE f0

\* Whether the number with this mantissa is 0 or -0.
IsZero(mantissa) == \A j \in 1..Len(mantissa) : mantissa[j] \in {"0", "."}

NumberToken(cs, i, i1, i2, f0, e0, e1) ==
    IF \/ i2 = i1
       \/ (i2 <= Len(cs) /\ cs[i2] = "." /\ f0 = i2 + 1)
       \/ (HasExp(cs, f0) /\ e1 = e0)
    THEN JsonFail
    ELSE JsonOk(JsNum(Str(SubSeq(cs, i, e1 - 1)), IsZero(SubSeq(cs, i1, f0 - 1))), e1)

NumberExp(cs, i, i1, i2, f0, e0) == NumberToken(cs, i, i1, i2, f0, e0, ExpEnd(cs, f0, e0))

NumberFrac(cs, i, i1, i2, f0) == NumberExp(cs, i, i1, i2, f0, ExpStart(cs, f0))

NumberInt(cs, i, i1, i2) == NumberFrac(cs, i, i1, i2, FracEnd(cs, i2))

NumberSign(cs, i, i1) == NumberInt(cs, i, i1, IntEnd(cs, i1))

JsonNumber(cs, i) == NumberSign(cs, i, IntStart(cs, i))

SimpleEscapes ==
    [c \in {"\"", "\\", "/", "b", "f", "n", "r", "t"} |->
        IF c = "b" THEN Chr(8) ELSE IF c = "f" THEN "\f" ELSE IF c = "n" THEN "\n"
        ELSE IF c = "r" THEN "\r" ELSE IF c = "t" THEN "\t" ELSE c]

\* The characters of a string after the opening quote: acc is the value so far.
RECURSIVE JsonStringTail(_, _, _)
JsonStringTail(cs, i, acc) ==
    IF i > Len(cs) THEN JsonFail
    ELSE IF cs[i] = "\"" THEN JsonOk(JsStr(acc), i + 1)
    ELSE IF cs[i] \in {"\t", "\n", "\f", "\r"} THEN JsonFail
    ELSE IF cs[i] # "\\" THEN JsonStringTail(cs, i + 1, acc \o cs[i])
    ELSE IF i + 1 > Len(cs) THEN JsonFail
    ELSE IF cs[i + 1] \in DOMAIN SimpleEscapes
    THEN JsonStringTail(cs, i + 2, acc \o SimpleEscapes[cs[i + 1]])
    ELSE IF cs[i + 1] = "u" /\ i + 5 <= Len(cs) /\ \A j \in (i + 2)..(i + 5) : IsHex(cs[j])
    THEN JsonStringTail(cs, i + 6,
            acc \o Chr(4096 * HexVal(cs[i + 2]) + 256 * HexVal(cs[i + 3])
                       + 16 * HexVal(cs[i + 4]) + HexVal(cs[i + 5])))
    ELSE JsonFail

RECURSIVE JsonValue(_, _)
RECURSIVE JsonElements(_, _, _)
RECURSIVE JsonMembers(_, _, _)

\* After an element: acc holds the elements so far, j is the next character.
ElementsNext(cs, acc, j) ==
    IF j > Len(cs) THEN JsonFail
    ELSE IF cs[j] = "," THEN JsonElements(cs, j + 1, acc)
    ELSE IF cs[j] = "]" THEN JsonOk(JsArr(acc), j + 1)
    ELSE JsonFail

ElementsAfter(cs, acc, v) ==
    IF ~v.ok THEN JsonFail ELSE ElementsNext(cs, Append(acc, v.val), SkipWs(cs, v.next))

\* The elements of an array after "[" or ",": acc holds the elements so far.
JsonElements(cs, i, acc) == ElementsAfter(cs, acc, JsonValue(cs, i))

\* After a member: acc holds the members so far, j is the next character.
MembersNext(cs, acc, j) ==
    IF j > Len(cs) THEN JsonFail
    ELSE IF cs[j] = "," THEN JsonMembers(cs, j + 1, acc)
    ELSE IF cs[j] = "}" THEN JsonOk(JsObj(acc), j + 1)
    ELSE JsonFail

MemberAfter(cs, acc, key, v) ==
    IF ~v.ok THEN JsonFail
    ELSE MembersNext(cs, Append(acc, [k |-> key, v |-> v.val]), SkipWs(cs, v.next))

\* After a member's key: c is the next character.
MemberValue(cs, acc, key, c) ==
    IF c <= Len(cs) /\ cs[c] = ":" THEN MemberAfter(cs, acc, key, JsonValue(cs, c + 1))
    ELSE JsonFail

MemberColon(cs, acc, ks) ==
    IF ~ks.ok THEN JsonFail ELSE MemberValue(cs, acc, ks.val.s, SkipWs(cs, ks.next))

MemberKey(cs, acc, k) ==
    IF k <= Len(cs) /\ cs[k] = "\"" THEN MemberColon(cs, acc, JsonStringTail(cs, k + 1, ""))
    ELSE JsonFail

\* The members of an object after "{" or ",": acc holds the members so far.
JsonMembers(cs, i, acc) == MemberKey(cs, acc, SkipWs(cs, i))

\* After the "{" at i: j is the next character.
ObjectAfter(cs, i, j) ==
    IF j <= Len(cs) /\ cs[j] = "}" THEN JsonOk(JsObj(<<>>), j + 1)
    ELSE JsonMembers(cs, i + 1, <<>>)

\* After the "[" at i: j is the next character.
ArrayAfter(cs, i, j) ==
    IF j <= Len(cs) /\ cs[j] = "]" THEN JsonOk(JsArr(<<>>), j + 1)
    ELSE JsonElements(cs, i + 1, <<>>)

ValueAt(cs, i) ==
    IF i > Len(cs) THEN JsonFail
    ELSE IF cs[i] = "{" THEN ObjectAfter(cs, i, SkipWs(cs, i + 1))
    ELSE IF cs[i] = "[" THEN ArrayAfter(cs, i, SkipWs(cs, i + 1))
    ELSE IF cs[i] = "\"" THEN JsonStringTail(cs, i + 1, "")
    ELSE IF HasAt(cs, i, Chars("true")) THEN JsonOk(JsBool(TRUE), i + 4)
    ELSE IF HasAt(cs, i, Chars("false")) THEN JsonOk(JsBool(FALSE), i + 5)
    ELSE IF HasAt(cs, i, Chars("null")) THEN JsonOk(JsNull, i + 4)
    ELSE JsonNumber(cs, i)

JsonValue(cs, i0) == ValueAt(cs, SkipWs(cs, i0))

SyntaxError == [ok |-> FALSE, name |-> "SyntaxError", message |-> "Unexpected token in JSON"]

\* v: the value at the start of the text; nothing but white space may follow it.
WholeText(cs, v) ==
    IF v.ok /\ SkipWs(cs, v.next) > Len(cs) THEN [ok |-> TRUE, val |-> v.val] ELSE SyntaxError

\* JSON.parse(text): the value, or the SyntaxError it throws.
JSONparse(cs) == WholeText(cs, JsonValue(cs, 1))
-----------------------------------------------------------------------------
(* ReviewAnalyzer.generateFallbackAnalysis *)

\* r.rating || 0
RatingOrZero(r) == IF r.rating = None THEN 0 ELSE r.rating[1]

RECURSIVE SumRatings(_)
SumRatings(reviews) ==
    IF Len(reviews) = 0 THEN 0 ELSE RatingOrZero(Head(reviews)) + SumRatings(Tail(reviews))

\* reviews.filter(r => (r.rating || 0) >= 4).length
positiveReviewsOf(reviews) == Len(SelectSeq(reviews, LAMBDA r : RatingOrZero(r) >= 4))
\* reviews.filter(r => (r.rating || 0) <= 2).length
negativeReviewsOf(reviews) == Len(SelectSeq(reviews, LAMBDA r : RatingOrZero(r) <= 2))

\* A variant with >= where the code has >.
FallbackSentimentLoose(positiveReviews, negativeReviews) ==
    IF positiveReviews >= negativeReviews * 2 THEN "positive"
    ELSE IF negativeReviews >= positiveReviews * 2 THEN "negative"
    ELSE "mixed"

\* Lines 290-292.
FallbackSentiment(positiveReviews, negativeReviews) ==
    IF positiveReviews > negativeReviews * 2 THEN "positive"
    ELSE IF negativeReviews > positiveReviews * 2 THEN "negative"
    ELSE "mixed"

\* The odd k for which the double nearest to k/20 lies below k/20, so that
\* toFixed(1) rounds the tie down (IEEE 754 binary64), for ratings in 0..5.
TiesBelow == {3, 7, 17, 19, 23, 29, 33, 39, 41, 43, 51, 53, 61, 63, 71, 73, 81, 87, 91, 97}

\* (total / n).toFixed(1), for 0 <= total <= 5 * n
Tenths(total, n) ==
    LET q == (10 * total) \div n
        r == (10 * total) % n
    IN  IF 2 * r > n THEN q + 1
        ELSE IF 2 * r < n THEN q
        ELSE IF ((20 * total) \div n) \in TiesBelow THEN q ELSE q + 1

OneDecimal(tenths) == ToString(tenths \div 10) \o "." \o ToString(tenths % 10)

ToFixed1(total, n) == IF n = 0 THEN "NaN" ELSE OneDecimal(Tenths(total, n))

\* Math.round((positive / n) * 100) as a string, for n < 60: the one product
\* that binary64 rounds below its tie is 23/40 * 100.
RoundPercent(positive, n) ==
    IF n = 0 THEN "NaN"
    ELSE LET q == (100 * positive) \div n
             r == (100 * positive) % n
         IN  ToString(IF 2 * r > n \/ (2 * r = n /\ 40 * positive # 23 * n) THEN q + 1 ELSE q)

commonWords   == <<"great", "good", "excellent", "amazing", "love", "best", "perfect">>
negativeWords == <<"bad", "terrible", "awful", "worst", "hate", "disappointing">>

\* reviews.map(r => r.text.toLowerCase()).join(' ')
AllText(reviews) ==
    JoinWith([i \in 1..Len(reviews) |-> toLowerCase(Chars(reviews[i].text))], <<" ">>)

FoundWords(words, allText) == SelectSeq(words, LAMBDA word : includes(allText, Chars(word)))

RECURSIVE JoinStr(_, _)
JoinStr(ss, sep) ==
    IF Len(ss) = 0 THEN ""
    ELSE IF Len(ss) = 1 THEN ss[1]
    ELSE ss[1] \o sep \o JoinStr(Tail(ss), sep)

StrArr(ss) == JsArr([i \in 1..Len(ss) |-> JsStr(ss[i])])

\* Lines 302-323, with the local variables of lines 284-300; n is
\* reviews.length.
FallbackAnalysis(n, totalRating, avgRating, positiveReviews, negativeReviews, foundPositive, foundNegative) ==
    [ overallSentiment |-> JsStr(FallbackSentiment(positiveReviews, negativeReviews)),
      topicSummaries |-> JsArr(<< JsObj(<<
          [k |-> "topic", v |-> JsStr("Overall Experience")],
          [k |-> "summary", v |-> JsStr(
              "Based on " \o ToString(n) \o " reviews with an average rating of "
              \o avgRating \o "/5 stars. " \o ToString(positiveReviews)
              \o " positive reviews vs " \o ToString(negativeReviews)
              \o " negative reviews.")],
          [k |-> "mentionCount", v |-> JsInt(n)] >>) >>),
      keyInsights |-> StrArr(<<
          "Average rating: " \o avgRating \o "/5 stars",
          RoundPercent(positiveReviews, n) \o "% of reviews are positive (4+ stars)",
          "Analyzed " \o ToString(n) \o " customer reviews for patterns and sentiment" >>),
      commonPhrases |->
          IF Len(foundPositive) > 0
          THEN StrArr(SubSeq(foundPositive, 1, Min(5, Len(foundPositive))))
          ELSE StrArr(<<"N/A">>),
      customerPainPoints |->
          IF Len(foundNegative) > 0
          THEN StrArr(SubSeq(foundNegative, 1, Min(3, Len(foundNegative))))
          ELSE StrArr(<<"No major pain points identified">>),
      positiveHighlights |->
          IF Len(foundPositive) > 0
          THEN StrArr(<<"Customers frequently mention: " \o JoinStr(foundPositive, ", ")>>)
          ELSE StrArr(<<"Generally positive customer feedback">>),
      recommendations |-> StrArr(<<
          "Run a full AI analysis for detailed insights",
          IF n # 0 /\ 2 * totalRating < 7 * n
          THEN "Focus on addressing customer concerns"
          ELSE "Continue maintaining quality standards" >>) ]

generateFallbackAnalysis(placeName, reviews) ==
    FallbackAnalysis(Len(reviews), SumRatings(reviews),
                     ToFixed1(SumRatings(reviews), Len(reviews)),
                     positiveReviewsOf(reviews), negativeReviewsOf(reviews),
                     FoundWords(commonWords, AllText(reviews)),
                     FoundWords(negativeWords, AllText(reviews)))

-----------------------------------------------------------------------------
(* ReviewAnalyzer.analyzeReviews.  The provider's text is a sequence of        *)
(* characters, since it can hold the grave accents of a code fence.            *)

Fence == <<Chr(96), Chr(96), Chr(96)>>

\* s.replace(/<marker>\s*/, '') for an s that starts with the marker
RemoveMarker(cs, marker) ==
    StripLeading(SubSeq(cs, Len(marker) + 1, Len(cs)), JsWhiteSpace)

\* s.replace(/\s*```$/, '')
RemoveClosingFence(cs) ==
    IF Len(cs) >= 3 /\ SubSeq(cs, Len(cs) - 2, Len(cs)) = Fence
    THEN StripTrailing(SubSeq(cs, 1, Len(cs) - 3), JsWhiteSpace)
    ELSE cs

\* if (cleanResponse.startsWith(marker)) cleanResponse =
\*     cleanResponse.replace(/<marker>\s*/, '').replace(/\s*```$/, '')
RemoveFences(cleanResponse, marker) ==
    IF startsWith(cleanResponse, marker)
    THEN RemoveClosingFence(RemoveMarker(cleanResponse, marker))
    ELSE cleanResponse

\* Lines 242-248.
CleanResponse(responseText) ==
    RemoveFences(RemoveFences(trim(responseText), Fence \o Chars("json")), Fence)

\* The match from the first "{" (at i) to the last "}" (at j), or null.
MatchBetween(cs, i, j) ==
    IF i <= Len(cs) /\ j > i THEN [null |-> FALSE, text |-> SubSeq(cs, i, j)]
    ELSE [null |-> TRUE]

\* cleanResponse.match(/\{[\s\S]*\}/): the match, or null.
JsonMatch(cs) == MatchBetween(cs, FirstOf(cs, {"{"}), LastIndexOf(cs, "}"))

\* A variant that trusts the provider: x, without the Array.isArray test.
ArrayUnchecked(v) == v

\* Array.isArray(x) ? x : []
ArrayOrEmpty(v) == IF v.t = "arr" THEN v ELSE JsArr(<<>>)

\* Lines 260-268.
ValidateAnalysis(analysis) ==
    [ overallSentiment |->
          IF Truthy(GetMember(analysis, "overallSentiment"))
          THEN GetMember(analysis, "overallSentiment") ELSE JsStr("mixed"),
      topicSummaries     |-> ArrayOrEmpty(GetMember(analysis, "topicSummaries")),
      keyInsights        |-> ArrayOrEmpty(GetMember(analysis, "keyInsights")),
      commonPhrases      |-> ArrayOrEmpty(GetMember(analysis, "commonPhrases")),
      customerPainPoints |-> ArrayOrEmpty(GetMember(analysis, "customerPainPoints")),
      positiveHighlights |-> ArrayOrEmpty(GetMember(analysis, "positiveHighlights")),
      recommendations    |-> ArrayOrEmpty(GetMember(analysis, "recommendations")) ]

\* A variant of the catch block that lets the error go on to the caller.
CatchAndRethrow(placeName, reviews) == Throw("Error", "AI analysis failed")

\* The catch block, lines 273-277.
CatchAnalysis(placeName, reviews) == Return(generateFallbackAnalysis(placeName, reviews))

\* No JSON found in AI response, lines 252-255.
NoJsonFound(placeName, reviews) == Return(generateFallbackAnalysis(placeName, reviews))

\* analyzeReviews(placeName, reviews) once generateContent has settled as
\* `provider`: [kind |-> "reject"], [kind |-> "textThrows"] (response.text()
\* throws) or [kind |-> "text", text |-> characters].
\* Lines 257-271, with parsed the outcome of JSON.parse(jsonMatch[0]).
AfterParse(placeName, reviews, parsed) ==
    IF ~parsed.ok THEN CatchAnalysis(placeName, reviews)
    ELSE Return(ValidateAnalysis(parsed.val))

\* Lines 252-271, with jsonMatch the outcome of cleanResponse.match(...).
AfterMatch(placeName, reviews, jsonMatch) ==
    IF jsonMatch.null THEN NoJsonFound(placeName, reviews)
    ELSE AfterParse(placeName, reviews, JSONparse(jsonMatch.text))

analyzeReviews(placeName, reviews, provider) ==
    IF provider.kind # "text" THEN CatchAnalysis(placeName, reviews)
    ELSE AfterMatch(placeName, reviews, JsonMatch(CleanResponse(provider.text)))
-----------------------------------------------------------------------------
(* The inputs of analyzeReviews: review lists that getPlaceReviews returns,  *)
(* and what the generative provider does.                                     *)

MaxAnalyze == 4

AnalyzeTexts ==
    { "Great food and the best coffee", "Terrible service, the WORST wait", "We waited twenty minutes" }

Ratings == {None} \cup {Some(n) : n \in 1..5}

RatingCycles == {<<a>> : a \in Ratings} \cup {<<a, b>> : a, b \in Ratings}

\* The end-to-end scenario of the specification: 25 ratings, 18 of them >= 4,
\* 3 of them <= 2, the rest 3.
ScenarioRatings ==
    <<5, 5, 5, 4, 5, 1, 5, 4, 5, 5, 3, 4, 5, 2, 5, 4, 3, 5, 5, 1, 4, 3, 5, 3, 4>>

AnalyzeBodies ==
    { [displayName |-> Some("Cafe Uno"),
       reviews |-> Some([i \in 1..n |-> RawReview(Some(t), None, rc[((i - 1) % Len(rc)) + 1])])] :
          n \in 1..MaxAnalyze, t \in AnalyzeTexts, rc \in RatingCycles }
    \cup
    { [displayName |-> None,
       reviews |-> Some([i \in 1..Len(ScenarioRatings) |->
                           RawReview(Some(t), None, Some(ScenarioRatings[i]))])] :
          t \in AnalyzeTexts }
    \cup
    { [displayName |-> Some("Cafe Uno"),
       reviews |-> Some(<<RawReview(Some("Great food and the best coffee"), None, Some(5)),
                          RawReview(Some("ok"), None, Some(1)),
                          RawReview(None, Some("Awful, I hate the perfect amazing excellent good love"),
                                    Some(2))>>)] }

ProviderText(str) == [kind |-> "text", text |-> Chars(str)]

FullAnalysisJson ==
    "{\"overallSentiment\": \"positive\", \"topicSummaries\": [{\"topic\": \"Service\", "
    \o "\"summary\": \"Fast\", \"mentionCount\": 8}], \"keyInsights\": [\"a\", \"b\"], "
    \o "\"commonPhrases\": [\"great food\"], \"customerPainPoints\": [], "
    \o "\"positiveHighlights\": [\"staff\"], \"recommendations\": [\"keep going\"]}"

ProviderOutcomes ==
    { [kind |-> "reject"],
      [kind |-> "textThrows"],
      ProviderText("I could not analyze these reviews."),
      ProviderText("} nothing to see {"),
      ProviderText("{overallSentiment: positive}"),
      ProviderText("{\"overallSentiment\": \"negative\"} and {thanks}"),
      ProviderText(FullAnalysisJson),
      ProviderText("Sure! {\"overallSentiment\": \"mixed\", \"recommendations\": [\"r\"]} Bye."),
      [kind |-> "text",
       text |-> Fence \o Chars("json\n{\"overallSentiment\": \"negative\", \"keyInsights\": [\"k\"]}\n")
                \o Fence],
      [kind |-> "text",
       text |-> <<" ">> \o Fence \o Chars("\n{\"keyInsights\": [1, 2]}") \o Fence \o <<"\n">>],
      ProviderText("{}"),
      ProviderText("{\"overallSentiment\": \"\", \"topicSummaries\": null}"),
      ProviderText("{\"overallSentiment\": 0, \"keyInsights\": \"none\", \"commonPhrases\": {\"a\": []}}"),
      ProviderText("{\"overallSentiment\": \"neutral\", \"recommendations\": 5}"),
      ProviderText("{\"overallSentiment\": [\"positive\"], \"positiveHighlights\": true}") }

InitAnalyze ==
    /\ \E data \in AnalyzeBodies :
          /\ getPlaceReviewsBody(data).kind = "return"
          /\ anPlace = getPlaceReviewsBody(data).value.name
          /\ anReviews = getPlaceReviewsBody(data).value.reviews
    /\ anProvider \in ProviderOutcomes
    /\ anOut = Pending
    /\ UrlIdle /\ FetchIdle /\ PipeIdle

CallAnalyze ==
    /\ anOut = Pending
    /\ anOut' = analyzeReviews(anPlace, anReviews, anProvider)
    /\ UNCHANGED <<anPlace, anReviews, anProvider, urlVars, fetchVars, pipeVars>>

NextAnalyze == CallAnalyze

SpecAnalyze == InitAnalyze /\ [][NextAnalyze]_vars

-----------------------------------------------------------------------------
(* app.post('/api/analyze') with findPlace and getPlaceReviews.  A handler    *)
(* runs from one await to the next in one step; when an async function        *)
(* returns, its caller goes on in the same turn of the event loop.            *)

Requests == {"r1", "r2"}

Timestamp == "new Date().toISOString()"

\* A variant of the error response that also exposes the stack of the error.
ErrorResponseWithStack(message) ==
    [status |-> 400, body |-> [error |-> message, timestamp |-> Timestamp,
                               stack |-> "Error: " \o message \o "\n    at ..."]]

\* Lines 380-383.
ErrorResponse(message) ==
    [status |-> 400, body |-> [error |-> message, timestamp |-> Timestamp]]

UrlRequiredResponse ==
    [status |-> 400, body |-> [error |-> "URL is required",
                               hint |-> "Please provide a Google Maps URL"]]

\* A variant of the success response that takes the review counts from what
\* global.reviewData held when the handler resumed, if it held anything.
SuccessResponseFromGlobal(place, reviewData, analysis) ==
    LET counts == IF globalReviewData = JsUndefined THEN reviewData ELSE globalReviewData
    IN  [status |-> 200,
         body |-> [success         |-> TRUE,
                   place           |-> [name |-> place.name, rating |-> place.rating,
                                        reviewCount |-> place.reviewCount],
                   reviewsAnalyzed |-> counts.totalFound,
                   reviewData      |-> [totalFound     |-> counts.totalFound,
                                        totalAvailable |-> counts.totalAvailable,
                                        limitApplied   |-> counts.limitApplied],
                   analysis        |-> analysis]]

\* Lines 362-376.
SuccessResponse(place, reviewData, analysis) ==
    [status |-> 200,
     body |-> [success         |-> TRUE,
               place           |-> [name |-> place.name, rating |-> place.rating,
                                    reviewCount |-> place.reviewCount],
               reviewsAnalyzed |-> reviewData.totalFound,
               reviewData      |-> [totalFound     |-> reviewData.totalFound,
                                    totalAvailable |-> reviewData.totalAvailable,
                                    limitApplied   |-> reviewData.limitApplied],
               analysis        |-> analysis]]

\* The handler of request r sends a response and ends (res.json, then return or
\* the end of the try or catch block).
Respond(r, response) ==
    /\ responses' = [responses EXCEPT ![r] = Append(@, response)]
    /\ req' = [req EXCEPT ![r].pc = "done"]

\* A variant of the catch block that starts the request over and sends nothing.
CatchAndRetry(r, message) ==
    /\ req' = [req EXCEPT ![r].pc = "idle"]
    /\ UNCHANGED <<calls, responses, globalReviewData>>

\* catch (error) { res.status(400).json({ error: error.message, timestamp }) }
CatchHandler(r, message) ==
    /\ Respond(r, ErrorResponse(message))
    /\ UNCHANGED <<calls, globalReviewData>>

\* What a fetch() settles as: a rejection (the network failed) or a response.
FetchOutcomes(statuses) ==
    {[kind |-> "reject", message |-> "fetch failed"]}
        \cup {[kind |-> "response", status |-> st] : st \in statuses}

\* response.ok
StatusOk(status) == status \in 200..299

\* What the search provider's body parses to (response.json()).
SearchBodies ==
    { [places |-> Some(<<[id |-> "place-1", displayName |-> Some("Cafe Uno"),
                          rating |-> Some(4), userRatingCount |-> Some(120)]>>)],
      [places |-> Some(<<[id |-> "place-2", displayName |-> None,
                          rating |-> None, userRatingCount |-> None]>>)],
      [places |-> Some(<<>>)],
      [places |-> None] }

JsonOutcomes(bodies) ==
    {[kind |-> "reject", message |-> "Unexpected end of JSON input"]}
        \cup {[kind |-> "data", data |-> b] : b \in bodies}

PipelineUrls ==
    { None, Some(""),
      Some("https://maps.google.com/maps/place/Restaurant+Name"),
      Some("@https://maps.app.goo.gl/3a3YDmhLRacNV9Bs9"),
      Some("invalid-url"),
      Some("https://example.com/not-google-maps"),
      Some("https://www.google.com/maps?q=100%25") }

PipelineBodies ==
    { [displayName |-> Some("Cafe Uno"),
       reviews |-> Some(<<RawReview(Some("Great food and the best coffee"), None, Some(5)),
                          RawReview(Some("Bad"), None, Some(1)),
                          RawReview(None, Some("Terrible service, the WORST wait"), Some(2))>>)],
      [displayName |-> Some("Bar Dos"),
       reviews |-> Some(<<RawReview(Some("We waited twenty minutes"), None, Some(3))>>)],
      [displayName |-> None,
       reviews |-> Some(<<RawReview(Some("Bad"), None, Some(1))>>)],
      [displayName |-> Some("Cafe Uno"), reviews |-> None] }

PipelineProviders ==
    { [kind |-> "reject"],
      ProviderText("I could not analyze these reviews."),
      ProviderText("{\"overallSentiment\": \"mixed\", \"recommendations\": [\"r\"]}"),
      ProviderText("{\"overallSentiment\": \"neutral\", \"recommendations\": 5}") }

Init ==
    /\ req \in [Requests -> {[pc |-> "idle", url |-> u, placeName |-> Idle, status |-> 0,
                              place |-> Idle, reviewData |-> Idle] : u \in PipelineUrls}]
    /\ calls = [r \in Requests |-> <<>>]
    /\ responses = [r \in Requests |-> <<>>]
    /\ globalReviewData = JsUndefined
    /\ UrlIdle /\ FetchIdle /\ AnIdle

\* Lines 331-348 and 113: the url check, parseGoogleMapsUrl, and findPlace up to
\* its await fetch(...).
HandleRequest(r) ==
    /\ req[r].pc = "idle"
    /\ IF req[r].url = None \/ req[r].url = Some("")
       THEN /\ Respond(r, UrlRequiredResponse)
            /\ UNCHANGED <<calls, globalReviewData>>
       ELSE \E parsed \in {parseGoogleMapsUrl(req[r].url[1])} :
                IF parsed.kind = "throw"
                THEN CatchHandler(r, parsed.message)
                ELSE /\ req' = [req EXCEPT ![r].pc = "awaitSearchFetch",
                                           ![r].placeName = parsed.value]
                     /\ calls' = [calls EXCEPT ![r] = Append(@, "place-search")]
                     /\ UNCHANGED <<responses, globalReviewData>>
    /\ UNCHANGED <<urlVars, fetchVars, anVars>>

\* Lines 113-136: the place-search fetch settles.
SearchFetchSettles(r) ==
    /\ req[r].pc = "awaitSearchFetch"
    /\ \E o \in FetchOutcomes({200, 403, 500}) :
          IF o.kind = "reject" THEN CatchHandler(r, o.message)
          ELSE /\ req' = [req EXCEPT ![r].pc = IF StatusOk(o.status) THEN "awaitSearchJson"
                                               ELSE "awaitSearchText",
                                     ![r].status = o.status]
               /\ UNCHANGED <<calls, responses, globalReviewData>>
    /\ UNCHANGED <<urlVars, fetchVars, anVars>>

\* Lines 127-133: response.text() settles for a response that is not ok.
SearchTextSettles(r) ==
    /\ req[r].pc = "awaitSearchText"
    /\ \E o \in {"resolve", "reject"} :
          CatchHandler(r,
              IF o = "reject" THEN "terminated"
              ELSE IF req[r].status = 403
              THEN "Google Places API access denied. Check your API key and billing settings."
              ELSE "Failed to find place: " \o ToString(req[r].status))
    /\ UNCHANGED <<urlVars, fetchVars, anVars>>

\* Lines 136-148, 349-352 and 153: response.json() settles, findPlace returns or
\* throws, and getPlaceReviews runs up to its await fetch(...).
SearchJsonSettles(r) ==
    /\ req[r].pc = "awaitSearchJson"
    /\ \E o \in JsonOutcomes(SearchBodies) :
          IF o.kind = "reject" THEN CatchHandler(r, o.message)
          ELSE IF o.data.places = None \/ o.data.places = Some(<<>>)
          THEN CatchHandler(r, "No results found for \"" \o req[r].placeName
                               \o "\". Try a more specific search term.")
          ELSE LET place == o.data.places[1][1]
               IN  /\ req' = [req EXCEPT
                         ![r].pc = "awaitDetailFetch",
                         ![r].place = [id          |-> place.id,
                                       name        |-> IF place.displayName # None
                                                          /\ place.displayName[1] # ""
                                                       THEN place.displayName[1]
                                                       ELSE req[r].placeName,
                                       rating      |-> place.rating,
                                       reviewCount |-> place.userRatingCount]]
                   /\ calls' = [calls EXCEPT ![r] = Append(@, "place-detail")]
                   /\ UNCHANGED <<responses, globalReviewData>>
    /\ UNCHANGED <<urlVars, fetchVars, anVars>>

\* Lines 153-164: the place-detail fetch settles.
DetailFetchSettles(r) ==
    /\ req[r].pc = "awaitDetailFetch"
    /\ \E o \in FetchOutcomes({200, 404}) :
          IF o.kind = "reject" THEN CatchHandler(r, o.message)
          ELSE IF ~StatusOk(o.status)
          THEN CatchHandler(r, "Failed to get reviews: " \o ToString(o.status))
          ELSE /\ req' = [req EXCEPT ![r].pc = "awaitDetailJson", ![r].status = o.status]
               /\ UNCHANGED <<calls, responses, globalReviewData>>
    /\ UNCHANGED <<urlVars, fetchVars, anVars>>

\* Lines 164-190, 353-356 and 195-236: response.json() settles, getPlaceReviews
\* returns or throws, and analyzeReviews runs up to its await generateContent(...).
DetailJsonSettles(r) ==
    /\ req[r].pc = "awaitDetailJson"
    /\ \E o \in JsonOutcomes(PipelineBodies) :
          IF o.kind = "reject" THEN CatchHandler(r, o.message)
          ELSE \E got \in {getPlaceReviewsBody(o.data)} :
                   IF got.kind = "throw" THEN CatchHandler(r, got.message)
                   ELSE /\ req' = [req EXCEPT ![r].pc = "awaitGenerate",
                                              ![r].reviewData = got.value]
                        /\ calls' = [calls EXCEPT ![r] = Append(@, "generative-analysis")]
                        /\ UNCHANGED <<responses, globalReviewData>>
    /\ UNCHANGED <<urlVars, fetchVars, anVars>>

\* Lines 236-278 and 357-376: generateContent settles, analyzeReviews returns, the
\* handler stores global.reviewData and sends the success response.
GenerateSettles(r) ==
    /\ req[r].pc = "awaitGenerate"
    /\ \E provider \in PipelineProviders :
       \E got \in {analyzeReviews(req[r].reviewData.name, req[r].reviewData.reviews,
                                   provider)} :
              IF got.kind = "throw" THEN CatchHandler(r, got.message)
              ELSE /\ globalReviewData' = req[r].reviewData
                   /\ Respond(r, SuccessResponse(req[r].place, req[r].reviewData, got.value))
                   /\ UNCHANGED calls
    /\ UNCHANGED <<urlVars, fetchVars, anVars>>

\* The steps of the handler of request r.
RequestStep(r) ==
    \/ HandleRequest(r)
    \/ SearchFetchSettles(r)
    \/ SearchTextSettles(r)
    \/ SearchJsonSettles(r)
    \/ DetailFetchSettles(r)
    \/ DetailJsonSettles(r)
    \/ GenerateSettles(r)

Next == \E r \in Requests : RequestStep(r)

Spec == Init /\ [][Next]_vars

-----------------------------------------------------------------------------
(* analyzeReviews: what it gives back (specification SpecAnalyze) *)

\* Whether the primary path fails for what the provider does: generateContent
\* rejects, response.text() throws, the cleaned text has no "{...}", or what
\* stands between the first "{" and the last "}" is not JSON.
PrimaryFails(provider) ==
    \/ provider.kind # "text"
    \/ JsonMatch(CleanResponse(provider.text)).null
    \/ ~JSONparse(JsonMatch(CleanResponse(provider.text)).text).ok

\* C1: whatever the provider does, analyzeReviews throws nothing, and in what it
\* returns each of topicSummaries, keyInsights, commonPhrases, customerPainPoints,
\* positiveHighlights and recommendations is an array.
C1_ReturnsWithLists ==
    anOut # Pending =>
        /\ anOut.kind = "return"
        /\ \A f \in {"topicSummaries", "keyInsights", "commonPhrases",
                      "customerPainPoints", "positiveHighlights", "recommendations"} :
              anOut.value[f].t = "arr"

\* C1: the provider's JSON gave keyInsights as a string and commonPhrases as an
\* object, and analyzeReviews returned empty arrays for them.
C1_Witness ==
    /\ anOut # Pending
    /\ anProvider.kind = "text"
    /\ ~PrimaryFails(anProvider)
    /\ GetMember(JSONparse(JsonMatch(CleanResponse(anProvider.text)).text).val,
                 "keyInsights").t = "str"
    /\ anOut.value.keyInsights = JsArr(<<>>)
    /\ anOut.value.commonPhrases = JsArr(<<>>)

\* C2: in every result of analyzeReviews, overallSentiment is "positive",
\* "negative" or "mixed".
C2_SentimentIsOneOfThree ==
    (anOut # Pending /\ anOut.kind = "return") =>
        anOut.value.overallSentiment \in {JsStr("positive"), JsStr("negative"), JsStr("mixed")}

\* C3: when the primary path fails, in whichever way, analyzeReviews returns
\* generateFallbackAnalysis(placeName, reviews), a value that depends on nothing
\* but the place name and the reviews.
C3_FailureGivesFallback ==
    (anOut # Pending /\ PrimaryFails(anProvider)) =>
        anOut = Return(generateFallbackAnalysis(anPlace, anReviews))

\* C3: the provider's text had braces around something that is not JSON, and
\* analyzeReviews returned the fallback analysis.
C3_Witness ==
    /\ anOut # Pending
    /\ anProvider.kind = "text"
    /\ ~JsonMatch(CleanResponse(anProvider.text)).null
    /\ ~JSONparse(JsonMatch(CleanResponse(anProvider.text)).text).ok
    /\ anOut.kind = "return"
    /\ anOut.value.recommendations.items[1] = JsStr("Run a full AI analysis for detailed insights")

-----------------------------------------------------------------------------
(* getPlaceReviews: what it gives back (specification SpecFetch) *)

\* C4: with k the number of raw reviews whose mapped text is longer than 10,
\* getPlaceReviews throws "No substantial reviews found" if k = 0; otherwise
\* it returns min(k, maxReviews) reviews, the j-th of them being the j-th
\* substantial raw review, mapped, in the provider's order; totalFound is their
\* number, totalAvailable the number of raw reviews, and limitApplied says
\* whether totalAvailable > maxReviews.
C4_FirstSubstantialReviews ==
    fetchOut # Pending =>
        LET raw         == IF fetchData.reviews = None THEN <<>> ELSE fetchData.reviews[1]
            substantial == {i \in 1..Len(raw) : Len(MappedText(raw[i])) > 10}
            k           == Cardinality(substantial)
            \* rank[i]: how many of the raw reviews 1..i are substantial
            rank        == [i \in 1..Len(raw) |->
                               Cardinality({h \in substantial : h <= i})]
        IN  IF k = 0
            THEN /\ fetchOut.kind = "throw"
                 /\ fetchOut.message = "No substantial reviews found for this place."
            ELSE /\ fetchOut.kind = "return"
                 /\ Len(fetchOut.value.reviews) = (IF k < maxReviews THEN k ELSE maxReviews)
                 /\ \A i \in substantial :
                       rank[i] <= maxReviews =>
                           fetchOut.value.reviews[rank[i]] =
                               [text   |-> MappedText(raw[i]),
                                rating |-> raw[i].rating,
                                time   |-> raw[i].publishTime]
                 /\ fetchOut.value.totalFound = Len(fetchOut.value.reviews)
                 /\ fetchOut.value.totalAvailable = Len(raw)
                 /\ fetchOut.value.limitApplied = (Len(raw) > maxReviews)

\* C4: the provider sent more than maxReviews raw reviews, more than maxReviews
\* of them substantial and some not, and getPlaceReviews returned maxReviews of
\* them.
C4_Witness ==
    /\ fetchOut # Pending
    /\ fetchOut.kind = "return"
    /\ Len(fetchData.reviews[1]) > maxReviews
    /\ \E i \in 1..Len(fetchData.reviews[1]) : Len(MappedText(fetchData.reviews[1][i])) <= 10
    /\ Len(fetchOut.value.reviews) = maxReviews
    /\ fetchOut.value.limitApplied

-----------------------------------------------------------------------------
(* parseGoogleMapsUrl: what it gives back (specification SpecUrl) *)

InvalidUrlMessage == "Please provide a valid URL"

UnsupportedFormatMessages ==
    { "Please provide a valid Google Maps URL",
      "Could not extract place name from this URL format" }

\* C5: whatever the input string, parseGoogleMapsUrl returns or fails with an
\* InvalidUrlError or an UnsupportedFormatError; no other failure escapes.
C5_OnlyTwoFailureKinds ==
    (urlOut # Pending /\ urlOut.kind = "throw") =>
        /\ urlOut.name = "Error"
        /\ urlOut.message \in {InvalidUrlMessage} \cup UnsupportedFormatMessages

\* C6: a successful result of parseGoogleMapsUrl is never the empty string.
C6_SuccessNeverEmpty ==
    (urlOut # Pending /\ urlOut.kind = "return") => urlOut.value # ""

\* The kind of a failure: InvalidUrlError, UnsupportedFormatError, or the name
\* of whatever else was thrown.
FailureKind(r) ==
    IF r.message = InvalidUrlMessage THEN "InvalidUrlError"
    ELSE IF r.message \in UnsupportedFormatMessages THEN "UnsupportedFormatError"
    ELSE r.name

\* The same returned query, or the same kind of failure.
SameOutcome(a, b) ==
    IF a.kind = "return" THEN a = b
    ELSE b.kind = "throw" /\ FailureKind(a) = FailureKind(b)

\* urlIn is '@' + u for a string u that does not itself begin with '@'.
OneAtInFront ==
    /\ startsWith(Chars(urlIn), <<"@">>)
    /\ ~startsWith(Tail(Chars(urlIn)), <<"@">>)

\* urlIn is '@' + u for a string u whose first character that is not white
\* space, if it has one, is not '@'.
OneAtBeforeNoAt ==
    /\ startsWith(Chars(urlIn), <<"@">>)
    /\ ~startsWith(TrimStart(Tail(Chars(urlIn))), <<"@">>)

TwoAtInFront == startsWith(Chars(urlIn), <<"@", "@">>)

\* C7, as the specification has it: for every u that does not itself begin with
\* '@', parseGoogleMapsUrl('@' + u) has the same outcome as parseGoogleMapsUrl(u).
C7_OneAtSameAsNone ==
    (urlOut # Pending /\ OneAtInFront) =>
        SameOutcome(urlOut, parseGoogleMapsUrl(Str(Tail(Chars(urlIn)))))

\* C7, amended: for every ASCII string u whose first character that is not
\* white space is not '@', parseGoogleMapsUrl('@' + u) gives exactly what
\* parseGoogleMapsUrl(u) gives; and an input that begins with '@@' keeps an '@'
\* in front of what is parsed, so that it is not a valid URL.
C7_OneAtStripped ==
    urlOut # Pending =>
        /\ OneAtBeforeNoAt => urlOut = parseGoogleMapsUrl(Str(Tail(Chars(urlIn))))
        /\ TwoAtInFront => urlOut = Throw("Error", InvalidUrlMessage)

\* C7: '@' in front of a place URL, and the place name came back.
C7_Witness ==
    /\ urlIn = "@https://maps.google.com/maps/place/Restaurant+Name"
    /\ urlOut = Return("Restaurant Name")

-----------------------------------------------------------------------------
(* app.post('/api/analyze'): remote calls and responses (specification Spec) *)

Stages == <<"place-search", "place-detail", "generative-analysis">>

IsPrefix(s, t) == Len(s) <= Len(t) /\ s = SubSeq(t, 1, Len(s))

Responded(r) == Len(responses[r]) > 0

IsSuccess(response) == "success" \in DOMAIN response.body

HasUrl(r) == req[r].url # None /\ req[r].url # Some("")

\* The remote calls of request r are the first stages, in order and once each;
\* a stage has started only with what the stage before it produced; and the
\* request has responded with an error only if no later stage was started.
StagesInOrder(r) ==
    /\ IsPrefix(calls[r], Stages)
    /\ Len(calls[r]) >= 1 =>
          HasUrl(r) /\ parseGoogleMapsUrl(req[r].url[1]).kind = "return"
    /\ Len(calls[r]) >= 2 => req[r].place # Idle
    /\ Len(calls[r]) >= 3 => req[r].reviewData # Idle
    /\ (Responded(r) /\ Len(calls[r]) = 3) => IsSuccess(responses[r][1])
    /\ (Responded(r) /\ calls[r] # <<>>) => req[r].pc = "done"
    /\ (Responded(r) /\ req[r].place = Idle) => Len(calls[r]) <= 1
    /\ (Responded(r) /\ req[r].reviewData = Idle) => Len(calls[r]) <= 2

\* Once request r has responded it makes no remote call.
NoCallAfterResponse(r) == Responded(r) => calls'[r] = calls[r]

\* C8: within one request the remote calls form a prefix of place-search,
\* place-detail, generative-analysis: a stage starts only after the one before
\* it succeeded, no provider is called twice, after a failure of URL resolution,
\* place search or review fetch no later stage is started, and a request that
\* reached the generative analysis ends with the success response.
C8_CallsFormPrefix ==
    /\ [](\A r \in Requests : StagesInOrder(r))
    /\ [][\A r \in Requests : NoCallAfterResponse(r)]_vars

\* C8: one request failed in the place search and made no other call, the other
\* made all three calls and responded.
C8_Witness ==
    /\ calls["r1"] = <<"place-search">>
    /\ Responded("r1")
    /\ ~IsSuccess(responses["r1"][1])
    /\ calls["r2"] = Stages
    /\ Responded("r2")

\* C9: a request with a non-empty url sends at most one response, and one that
\* has ended has sent exactly one: either success, place,
\* reviewsAnalyzed, reviewData and analysis together, or an error message and a
\* timestamp and nothing else; a failure of URL resolution is answered with the
\* message parseGoogleMapsUrl threw, and a request that reached the generative
\* analysis is answered with success.
C9_OneResponse ==
    \A r \in Requests :
        HasUrl(r) =>
            /\ Len(responses[r]) <= 1
            /\ req[r].pc = "done" <=> Responded(r)
            /\ Responded(r) =>
                  LET body == responses[r][1].body
                  IN  /\ \/ /\ DOMAIN body = {"success", "place", "reviewsAnalyzed",
                                               "reviewData", "analysis"}
                            /\ body.success
                            /\ Len(calls[r]) = 3
                         \/ DOMAIN body = {"error", "timestamp"}
                      /\ calls[r] = <<>> =>
                            body.error = parseGoogleMapsUrl(req[r].url[1]).message
                      /\ Len(calls[r]) < 3 => ~IsSuccess(responses[r][1])
                      /\ Len(calls[r]) = 3 => IsSuccess(responses[r][1])

\* C9: one request was answered with the error of URL resolution, the other with
\* success after all three stages.
C9_Witness ==
    /\ HasUrl("r1") /\ HasUrl("r2")
    /\ Responded("r1")
    /\ responses["r1"][1].body = [error |-> "Please provide a valid URL",
                                  timestamp |-> Timestamp]
    /\ Responded("r2")
    /\ IsSuccess(responses["r2"][1])
    /\ responses["r2"][1].body.reviewsAnalyzed = 2

-----------------------------------------------------------------------------
(* generateFallbackAnalysis: the sentiment (specification SpecAnalyze) *)

\* How many of the reviews have a rating, and one in the set ratings.
RatedIn(reviews, ratings) ==
    Cardinality({i \in 1..Len(reviews) :
                    reviews[i].rating # None /\ reviews[i].rating[1] \in ratings})

Unrated(reviews) == Cardinality({i \in 1..Len(reviews) : reviews[i].rating = None})

\* positive if p > 2n, otherwise negative if n > 2p, otherwise mixed
SentimentOf(p, n) ==
    IF p > 2 * n THEN "positive" ELSE IF n > 2 * p THEN "negative" ELSE "mixed"

\* C10, as the specification has it: with positiveReviews the number of reviews
\* rated >= 4 and negativeReviews the number rated <= 2, the fallback sentiment is
\* positive if positiveReviews > 2 * negativeReviews, otherwise negative if
\* negativeReviews > 2 * positiveReviews, otherwise mixed.
C10_SentimentFromRated ==
    (anOut # Pending /\ PrimaryFails(anProvider)) =>
        anOut.value.overallSentiment =
            JsStr(SentimentOf(RatedIn(anReviews, 4..5), RatedIn(anReviews, 1..2)))

\* C10, amended: a review without a rating counts as rated 0, so that
\* negativeReviews is the number of reviews rated <= 2 or not rated; with that
\* the fallback sentiment is as the specification has it, whatever the texts, and
\* the two strict conditions never hold together.
C10_SentimentFromRatingOrZero ==
    (anOut # Pending /\ PrimaryFails(anProvider)) =>
        LET p == RatedIn(anReviews, 4..5)
            n == RatedIn(anReviews, 0..2) + Unrated(anReviews)
        IN  /\ anOut.value.overallSentiment = JsStr(SentimentOf(p, n))
            /\ ~(p > 2 * n /\ n > 2 * p)

\* C10: 18 ratings >= 4 and 3 ratings <= 2 among 25 gave positive.
C10_Witness ==
    /\ anOut # Pending
    /\ PrimaryFails(anProvider)
    /\ Len(anReviews) = 25
    /\ RatedIn(anReviews, 4..5) = 18
    /\ RatedIn(anReviews, 0..2) + Unrated(anReviews) = 3
    /\ anOut.value.overallSentiment = JsStr("positive")

-----------------------------------------------------------------------------
(* Concurrent requests and global.reviewData (specification Spec) *)

\* The success response of request r is made of the place and the review data
\* of request r, and of an analysis of the reviews of request r.
OwnResponse(r) ==
    (Responded(r) /\ IsSuccess(responses[r][1])) =>
        LET body == responses[r][1].body
        IN  /\ body.place = [name        |-> req[r].place.name,
                             rating      |-> req[r].place.rating,
                             reviewCount |-> req[r].place.reviewCount]
            /\ body.reviewsAnalyzed = req[r].reviewData.totalFound
            /\ body.reviewData = [totalFound     |-> req[r].reviewData.totalFound,
                                  totalAvailable |-> req[r].reviewData.totalAvailable,
                                  limitApplied   |-> req[r].reviewData.limitApplied]
            /\ \E provider \in PipelineProviders :
                  Return(body.analysis) = analyzeReviews(req[r].reviewData.name,
                                                         req[r].reviewData.reviews, provider)

\* global.reviewData holds nothing, or the review data of a request that sent
\* the success response.
GlobalFromFinished ==
    globalReviewData # JsUndefined =>
        \E r \in Requests :
            /\ Responded(r) /\ IsSuccess(responses[r][1])
            /\ globalReviewData = req[r].reviewData

\* A step writes global.reviewData only if it is the step in which a request
\* that awaited the generative analysis sends the success response, and what it
\* writes is the review data of that request; a step in which a request sends
\* an error leaves global.reviewData as it is.
GlobalWrittenOnSuccess ==
    /\ globalReviewData' # globalReviewData =>
          \E r \in Requests :
              /\ req[r].pc = "awaitGenerate"
              /\ Len(calls[r]) = 3
              /\ ~Responded(r)
              /\ Len(responses'[r]) = 1
              /\ IsSuccess(responses'[r][1])
              /\ globalReviewData' = req[r].reviewData
    /\ \A r \in Requests :
          (~Responded(r) /\ Len(responses'[r]) = 1 /\ ~IsSuccess(responses'[r][1])) =>
              globalReviewData' = globalReviewData

\* C11: however two concurrent requests interleave at their await points, each
\* success response is computed from the place and the reviews of its own
\* request; global.reviewData is written only by a request that completed all
\* four stages, in the step that sends its success response, and is left as
\* it is by a failing request.
C11_NoLeakBetweenRequests ==
    /\ [](GlobalFromFinished /\ \A r \in Requests : OwnResponse(r))
    /\ [][GlobalWrittenOnSuccess]_vars

\* C11: both requests sent the success response, for different places with
\* different review counts, and global.reviewData holds the review data of r2,
\* not that of r1.
C11_Witness ==
    /\ Responded("r1") /\ IsSuccess(responses["r1"][1])
    /\ Responded("r2") /\ IsSuccess(responses["r2"][1])
    /\ req["r1"].place.id # req["r2"].place.id
    /\ req["r1"].reviewData.totalFound # req["r2"].reviewData.totalFound
    /\ globalReviewData = req["r2"].reviewData
    /\ responses["r1"][1].body.reviewsAnalyzed = req["r1"].reviewData.totalFound

====
